---- MODULE Spec2Model ----
(***************************************************************************)
(* Early-risk aggregation (load_predictions), ERDE scoring (erisk_eval)    *)
(* and canonical-group voting (find_majority_answer) of search-and-learn.  *)
(***************************************************************************)
EXTENDS Integers, Sequences, FiniteSets, TLC

(***************************************************************************)
(* Bounds of the model                                                     *)
(***************************************************************************)
\* number of lines of the predictions file that are read
MaxRecords == 4
\* number of subjects erisk_eval scores
MaxUsers == 3
\* number of answers find_majority_answer is given
MaxAnswers == 4
\* number of answers and of scores find_answer_with_largest_sum is given
MaxScored == 3

(***************************************************************************)
(* Program constants                                                       *)
(***************************************************************************)
\* metrics_erisk.py:43   len(record.get("text")) > 300
TEXT_LEN == 300
\* metrics_erisk.py:62   len(criteria) >= 5
MIN_CRITERIA == 5

NO_SYMPTOMS == "NO_SYMPTOMS"

\* metrics_erisk.py:12-23.  The literal has no comma after "NO_SYMPTOMS", so
\* Python concatenates it with the next string: the list holds nine strings
\* and neither "NO_SYMPTOMS" nor "DEPRESSED_MOOD".  The list is never read.
VALID_TAGS ==
    { "NO_SYMPTOMSDEPRESSED_MOOD", "ANHEDONIA", "APPETITE_CHANGE",
      "SLEEP_ISSUES", "PSYCHOMOTOR", "FATIGUE", "WORTHLESSNESS",
      "COGNITIVE_ISSUES", "SUICIDAL_THOUGHTS" }

\* text_classification.py:43-53, the set __extract_answer filters with
EXTRACT_VALID_TAGS ==
    { "DEPRESSED_MOOD", "ANHEDONIA", "APPETITE_CHANGE", "SLEEP_ISSUES",
      "PSYCHOMOTOR", "FATIGUE", "WORTHLESSNESS", "COGNITIVE_ISSUES",
      "SUICIDAL_THOUGHTS" }

(***************************************************************************)
(* Inputs: the subjects of the golden truth file and the records of the    *)
(* predictions file.  A text is modelled by its length, the only thing     *)
(* load_predictions reads of it.                                           *)
(***************************************************************************)
Subjects == {"subject1", "subject2"}

TextLens == {TEXT_LEN, TEXT_LEN + 1}

\* values of record["classification"]: tag lists with repeats, the sentinel,
\* and a tag ("HAPPY") that is in neither valid tag set
Classifications ==
    { <<"NO_SYMPTOMS">>,
      <<"DEPRESSED_MOOD", "APPETITE_CHANGE", "SLEEP_ISSUES", "PSYCHOMOTOR">>,
      <<"APPETITE_CHANGE", "SLEEP_ISSUES", "PSYCHOMOTOR", "WORTHLESSNESS">>,
      <<"FATIGUE">>,
      <<"ANHEDONIA", "NO_SYMPTOMS", "ANHEDONIA">>,
      <<"HAPPY">>,
      <<"DEPRESSED_MOOD", "ANHEDONIA", "FATIGUE", "SLEEP_ISSUES", "PSYCHOMOTOR">> }

\* the labels of the golden truth file; load_predictions never reads them
GoldenTruth == [u \in Subjects |-> u = "subject1"]

Records ==
    [subject : Subjects, text : TextLens, classification : Classifications]

NoRecord == [subject |-> "", text |-> 0, classification |-> <<>>]

VARIABLES
    pc,               \* "loading" while the file is read, "done" after the loop
    nread,            \* lines of the file read so far
    record,           \* the loop variable: the record read last
    user_posts_seen,  \* metrics_erisk.py:37
    processed_users,  \* metrics_erisk.py:38
    golden,           \* the dict load_golden_truth built, mutated in place
    posts_admitted,   \* history: admitted posts per subject
    tags_admitted,    \* history: every tag of a subject's admitted posts
    seen_at_flip,     \* history: user_posts_seen at the post that made decision true
    seen_at_last,     \* history: user_posts_seen at the subject's last admitted post
    ev_pc,            \* erisk_eval: "idle", "call", "returned" or "raised"
    references,       \* erisk_eval's arguments
    predictions,
    delays,
    o,
    dtype,            \* the numpy dtype of references and predictions
    erde,             \* metrics_erisk.py:109, the per-subject values
    report,           \* what lines 136-139 print
    error,            \* the exception that ended the call, "" when none
    mj_pc,            \* find_majority_answer: "idle", "call", "returned" or "raised"
    answers,          \* the argument of find_majority_answer and of
                      \* find_answer_with_largest_sum
    mj_result,        \* the list it returns
    mj_error,         \* the exception that ended the call, "" when none
    ws_pc,            \* find_answer_with_largest_sum: "idle", "call", "returned" or "raised"
    scores,           \* its second argument
    ws_groups,        \* text_classification.py:109, canonical_groups after the loop
    ws_result,        \* the list it returns
    ws_error          \* the exception that ended the call, "" when none

varsLoad == << pc, nread, record, user_posts_seen, processed_users, golden,
               posts_admitted, tags_admitted, seen_at_flip, seen_at_last >>

varsEval == << ev_pc, references, predictions, delays, o, dtype, erde, report, error >>

varsMaj == << mj_pc, answers, mj_result, mj_error >>

varsSum == << ws_pc, scores, ws_groups, ws_result, ws_error >>

vars == << varsLoad, varsEval, varsMaj, varsSum >>

(***************************************************************************)
(* Python helpers                                                          *)
(***************************************************************************)
Range(s) == { s[i] : i \in 1..Len(s) }

\* iteration order of a Python set of these strings: fixed within one run
SetOrder ==
    << "DEPRESSED_MOOD", "ANHEDONIA", "APPETITE_CHANGE", "SLEEP_ISSUES",
       "PSYCHOMOTOR", "FATIGUE", "WORTHLESSNESS", "COGNITIVE_ISSUES",
       "SUICIDAL_THOUGHTS", "NO_SYMPTOMS", "HAPPY" >>

\* list(set(l))
ListOfSet(l) == SelectSeq(SetOrder, LAMBDA t : t \in Range(l))

(***************************************************************************)
(* Floats.  A float is modelled by the real number it approximates,        *)
(*     num/den + (wnum/wden) * SUM of 1 - 1/(1 + e^x) over x in logistic,  *)
(* or by NaN; rounding is left out.  The exponential stays symbolic.       *)
(***************************************************************************)
Abs(n) == IF n < 0 THEN 0 - n ELSE n

RECURSIVE Gcd(_, _)
Gcd(a, b) == IF b = 0 THEN a ELSE Gcd(b, a % b)

\* n/d in lowest terms, d > 0
Ratio(n, d) ==
    LET g == Gcd(Abs(n), d) IN [num |-> n \div g, den |-> d \div g]

Float(n, d) ==
    [ nan |-> FALSE, num |-> Ratio(n, d).num, den |-> Ratio(n, d).den,
      logistic |-> <<>>, wnum |-> 1, wden |-> 1 ]

NaN == [ nan |-> TRUE, num |-> 0, den |-> 0, logistic |-> <<>>, wnum |-> 0, wden |-> 0 ]

\* 1.0 - (1.0 / (1.0 + np.exp(x)))
Logistic(x) ==
    [ nan |-> FALSE, num |-> 0, den |-> 1, logistic |-> <<x>>, wnum |-> 1, wden |-> 1 ]

\* a / b of two floats without logistic terms, b > 0
FloatDiv(a, b) == Float(a.num * b.den, a.den * b.num)

FloatMul(a, b) == Float(a.num * b.num, a.den * b.den)

FloatAdd(a, b) == Float(a.num * b.den + b.num * a.den, a.den * b.den)

IsPositive(a) == (~ a.nan) /\ a.num > 0

\* np.sum of a boolean array
RECURSIVE CountTrue(_)
CountTrue(a) ==
    IF a = <<>> THEN 0 ELSE (IF Head(a) THEN 1 ELSE 0) + CountTrue(Tail(a))

\* the sum of an array of floats, each of weight 1
RECURSIVE FloatSum(_)
FloatSum(a) ==
    IF a = <<>>
    THEN Float(0, 1)
    ELSE LET h == Head(a)
             t == FloatSum(Tail(a))
         IN  [ FloatAdd(h, t) EXCEPT !.logistic = h.logistic \o t.logistic ]

\* ndarray.mean(): NaN (and a RuntimeWarning, no exception) on an empty array
Mean(a) ==
    IF Len(a) = 0
    THEN NaN
    ELSE LET t == FloatSum(a)
             r == Ratio(t.num, t.den * Len(a))
             w == Ratio(1, Len(a))
         IN  [ nan |-> FALSE, num |-> r.num, den |-> r.den,
               logistic |-> t.logistic, wnum |-> w.num, wden |-> w.den ]

\* a float times the integer k > 0
Times(a, k) ==
    IF a.nan
    THEN NaN
    ELSE LET r == Ratio(a.num * k, a.den)
             w == Ratio(a.wnum * k, a.wden)
         IN  [ nan |-> FALSE, num |-> r.num, den |-> r.den,
               logistic |-> a.logistic, wnum |-> w.num, wden |-> w.den ]

SeqsUpTo(S, n) == UNION { [1..k -> S] : k \in 0..n }

\* nothing printed
NoReport ==
    [ printed |-> FALSE, erde_global |-> NaN, f1 |-> NaN,
      precision |-> NaN, recall |-> NaN ]

\* sorted() order of the words of the answers
WordOrder == << "a", "b" >>

\* find_answer_with_largest_sum is not running
IdleSum ==
    /\ ws_pc = "idle"
    /\ scores = <<>>
    /\ ws_groups = <<>>
    /\ ws_result = <<>>
    /\ ws_error = ""

\* find_majority_answer is not running
IdleMaj ==
    /\ mj_pc = "idle"
    /\ answers = <<>>
    /\ mj_result = <<>>
    /\ mj_error = ""

\* erisk_eval is not running
IdleEval ==
    /\ ev_pc = "idle"
    /\ references = <<>>
    /\ predictions = <<>>
    /\ delays = <<>>
    /\ o = 0
    /\ dtype = "bool"
    /\ erde = <<>>
    /\ report = NoReport
    /\ error = ""

(***************************************************************************)
(* load_golden_truth: one entry per subject, criteria empty, no "judged",  *)
(* "decision" or "delay" key yet.  A key that is absent is left out of     *)
(* keys, and its field holds a placeholder that is never read.             *)
(***************************************************************************)
GoldenEntry(label) ==
    [ depressed_golden |-> label, criteria |-> <<>>, keys |-> {},
      decision |-> FALSE, delay |-> 0 ]

(***************************************************************************)
(* load_predictions                                                        *)
(***************************************************************************)
\* mutant of Admitted: the threshold itself admits
AdmittedAtThreshold(r) == r.text >= TEXT_LEN

\* metrics_erisk.py:43
Admitted(r) == r.text > TEXT_LEN

\* mutant of DropSentinel: the sentinel is kept
DropNothing(criteria) == criteria

\* metrics_erisk.py:53
DropSentinel(criteria) == SelectSeq(criteria, LAMBDA item : item # NO_SYMPTOMS)

\* metrics_erisk.py:55-57
MergeCriteria(old, criteria) == ListOfSet(old \o criteria)

\* mutant of Decide: more than MIN_CRITERIA tags are needed
DecideAboveThreshold(criteria) ==
    /\ Len(criteria) > MIN_CRITERIA
    /\ \/ "DEPRESSED_MOOD" \in Range(criteria)
       \/ "ANHEDONIA" \in Range(criteria)

\* metrics_erisk.py:62-64
Decide(criteria) ==
    /\ Len(criteria) >= MIN_CRITERIA
    /\ \/ "DEPRESSED_MOOD" \in Range(criteria)
       \/ "ANHEDONIA" \in Range(criteria)

\* mutant of DelayIsWritten: the delay follows every admitted post
DelayAlwaysWritten(g) == TRUE

\* metrics_erisk.py:68
DelayIsWritten(g) == (~ g.decision) \/ ("delay" \notin g.keys)

\* metrics_erisk.py:46-50: the counter after the record's increment
SeenAfter(user_id) ==
    IF user_id \in Range(processed_users) THEN user_posts_seen + 1 ELSE 1 + 1

\* metrics_erisk.py:46-48
ProcessedAfter(user_id) ==
    IF user_id \in Range(processed_users)
    THEN processed_users
    ELSE Append(processed_users, user_id)

\* metrics_erisk.py:51-69: the entry of the record's subject after the record
EntryAfter(g, r, seen) ==
    LET criteria == MergeCriteria(g.criteria, DropSentinel(r.classification))
        g1 == [g EXCEPT !.criteria = criteria,
                        !.keys = @ \cup {"judged", "decision"},
                        !.decision = Decide(criteria)]
    IN  IF DelayIsWritten(g1)
        THEN [g1 EXCEPT !.delay = seen, !.keys = @ \cup {"delay"}]
        ELSE g1

\* one iteration of the loop of metrics_erisk.py:40-69
ReadRecord(r) ==
    /\ pc = "loading"
    /\ nread < MaxRecords
    /\ nread' = nread + 1
    /\ record' = r
    /\ pc' = pc
    /\ IF Admitted(r)
       THEN LET user_id == r.subject
                seen == SeenAfter(user_id)
                g == EntryAfter(golden[user_id], r, seen)
            IN  /\ user_posts_seen' = seen
                /\ processed_users' = ProcessedAfter(user_id)
                /\ golden' = [golden EXCEPT ![user_id] = g]
                /\ posts_admitted' = [posts_admitted EXCEPT ![user_id] = @ + 1]
                /\ tags_admitted' =
                       [tags_admitted EXCEPT ![user_id] = @ \cup Range(r.classification)]
                /\ seen_at_flip' =
                       IF g.decision /\ ~ golden[user_id].decision
                       THEN [seen_at_flip EXCEPT ![user_id] = seen]
                       ELSE seen_at_flip
                /\ seen_at_last' = [seen_at_last EXCEPT ![user_id] = seen]
       ELSE UNCHANGED << user_posts_seen, processed_users, golden,
                         posts_admitted, tags_admitted, seen_at_flip, seen_at_last >>
    /\ UNCHANGED << varsEval, varsMaj, varsSum >>

\* the file is exhausted: metrics_erisk.py:71
EndOfFile ==
    /\ pc = "loading"
    /\ pc' = "done"
    /\ UNCHANGED << nread, record, user_posts_seen, processed_users, golden,
                    posts_admitted, tags_admitted, seen_at_flip, seen_at_last >>
    /\ UNCHANGED << varsEval, varsMaj, varsSum >>

\* the state before load_predictions' loop: metrics_erisk.py:26-38
InitLoad ==
    /\ pc = "loading"
    /\ nread = 0
    /\ record = NoRecord
    /\ user_posts_seen = 1
    /\ processed_users = <<>>
    /\ golden = [u \in Subjects |-> GoldenEntry(GoldenTruth[u])]
    /\ posts_admitted = [u \in Subjects |-> 0]
    /\ tags_admitted = [u \in Subjects |-> {}]
    /\ seen_at_flip = [u \in Subjects |-> 0]
    /\ seen_at_last = [u \in Subjects |-> 0]

Init == InitLoad /\ IdleEval /\ IdleMaj /\ IdleSum

Next ==
    \/ \E r \in Records : ReadRecord(r)
    \/ EndOfFile

Spec == Init /\ [][Next]_vars

(***************************************************************************)
(* erisk_eval                                                              *)
(***************************************************************************)
\* delays as load_predictions writes them: counter values, at least 2
DelayValues == {2, 5}

\* metrics_erisk.py:195
OValues == {5, 50}

\* metrics_erisk.py:104-106
true_pos == CountTrue(references)

pos_decisions == CountTrue(predictions)

pos_hits ==
    CountTrue([i \in 1..Len(references) |-> references[i] /\ predictions[i]])

total_users == Len(references)

\* mutant of FalseAlarmCost: the positive decisions are counted, not the gold positives
FalseAlarmCostOfDecisions == Float(pos_decisions, total_users)

\* metrics_erisk.py:114
FalseAlarmCost == Float(true_pos, total_users)

\* metrics_erisk.py:109-120: erde[i] after the loop
ErdeValue(i) ==
    IF predictions[i] /\ ~ references[i] THEN FalseAlarmCost
    ELSE IF (~ predictions[i]) /\ references[i] THEN Float(1, 1)
    ELSE IF predictions[i] /\ references[i] THEN Logistic(delays[i] - o)
    ELSE IF (~ predictions[i]) /\ ~ references[i] THEN Float(0, 1)
    ELSE Float(1, 1)

\* metrics_erisk.py:123
Precision ==
    IF pos_decisions > 0 THEN Float(pos_hits, pos_decisions) ELSE Float(0, 1)

\* metrics_erisk.py:124
Recall ==
    IF true_pos > 0 THEN Float(pos_hits, true_pos) ELSE Float(0, 1)

\* metrics_erisk.py:125-129
F1 ==
    IF IsPositive(FloatAdd(Precision, Recall))
    THEN FloatDiv(Times(FloatMul(Precision, Recall), 2), FloatAdd(Precision, Recall))
    ELSE Float(0, 1)

Raise(exception) ==
    /\ ev_pc' = "raised"
    /\ error' = exception
    /\ UNCHANGED << erde, report >>

\* metrics_erisk.py:96-139, one call
EriskEval ==
    /\ ev_pc = "call"
    /\ IF Len(references) # Len(predictions) \/ Len(predictions) # Len(delays)
       THEN Raise("AssertionError")
       ELSE IF dtype # "bool"
       THEN \* line 106: & is not defined on float arrays
            Raise("TypeError")
       ELSE /\ ev_pc' = "returned"
            /\ error' = ""
            /\ erde' = [i \in 1..total_users |-> ErdeValue(i)]
            /\ report' = [ printed |-> TRUE,
                           erde_global |-> Times(Mean(erde'), 100),
                           f1 |-> F1,
                           precision |-> Precision,
                           recall |-> Recall ]
    /\ UNCHANGED << references, predictions, delays, o, dtype >>
    /\ UNCHANGED << varsLoad, varsMaj, varsSum >>

\* a call of erisk_eval on arrays of booleans; np.array([]) of an empty list
\* has dtype float64 unless the caller asks for bool
InitEval ==
    /\ ev_pc = "call"
    /\ references \in SeqsUpTo(BOOLEAN, MaxUsers)
    /\ predictions \in SeqsUpTo(BOOLEAN, MaxUsers)
    /\ delays \in SeqsUpTo(DelayValues, MaxUsers)
    /\ o \in OValues
    /\ dtype \in (IF references = <<>> /\ predictions = <<>>
                  THEN {"bool", "float64"} ELSE {"bool"})
    /\ erde = <<>>
    /\ report = NoReport
    /\ error = ""

NextEval == EriskEval

InitEvalCall == InitLoad /\ InitEval /\ IdleMaj /\ IdleSum

SpecEval == InitEvalCall /\ [][NextEval]_vars

(***************************************************************************)
(* find_majority_answer                                                    *)
(***************************************************************************)
\* the answers of the input: lists of words, unsorted and with repeats
AnswerValues ==
    { <<>>, <<"a">>, <<"b">>, <<"a", "b">>, <<"b", "a">>, <<"b", "b">> }

\* text_classification.py:153   tuple(sorted(set(answer)))
Canonical(answer) == SelectSeq(WordOrder, LAMBDA w : w \in Range(answer))

\* A dict is the sequence of its items, in insertion order.
DictHas(d, k) == \E i \in 1..Len(d) : d[i].key = k

DictGet(d, k) == d[CHOOSE i \in 1..Len(d) : d[i].key = k].value

\* d[k] = v: a new key goes last, an old key keeps its place
DictSet(d, k, v) ==
    IF DictHas(d, k)
    THEN [i \in 1..Len(d) |-> IF d[i].key = k THEN [key |-> k, value |-> v] ELSE d[i]]
    ELSE Append(d, [key |-> k, value |-> v])

\* text_classification.py:148,151-156: canonical_groups after n answers
RECURSIVE canonical_groups(_, _)
canonical_groups(a, n) ==
    IF n = 0
    THEN <<>>
    ELSE LET d == canonical_groups(a, n - 1)
             canonical_form == Canonical(a[n])
         IN  DictSet(d, canonical_form,
                     (IF DictHas(d, canonical_form) THEN DictGet(d, canonical_form) ELSE 0) + 1)

\* text_classification.py:149,151-160: canonical_to_original after n answers
RECURSIVE canonical_to_original(_, _)
canonical_to_original(a, n) ==
    IF n = 0
    THEN <<>>
    ELSE LET d == canonical_to_original(a, n - 1)
             canonical_form == Canonical(a[n])
         IN  IF DictHas(d, canonical_form) THEN d ELSE DictSet(d, canonical_form, a[n])

\* text_classification.py:163   max(canonical_groups.values())
MaxValue(d) ==
    CHOOSE m \in { d[i].value : i \in 1..Len(d) } :
        \A i \in 1..Len(d) : d[i].value <= m

\* mutant of FirstWithCount: the last group of that count
LastWithCount(d, count) ==
    d[CHOOSE i \in 1..Len(d) :
        /\ d[i].value = count
        /\ \A j \in (i + 1)..Len(d) : d[j].value # count].key

\* text_classification.py:164-167: the first key, in the dict's order, of that count
FirstWithCount(d, count) ==
    d[CHOOSE i \in 1..Len(d) :
        /\ d[i].value = count
        /\ \A j \in 1..(i - 1) : d[j].value # count].key

\* text_classification.py:144-167, one call
FindMajorityAnswer ==
    /\ mj_pc = "call"
    /\ IF Len(answers) = 0
       THEN /\ mj_pc' = "raised"
            /\ mj_error' = "ValueError"
            /\ mj_result' = mj_result
       ELSE LET groups == canonical_groups(answers, Len(answers))
                originals == canonical_to_original(answers, Len(answers))
                max_count == MaxValue(groups)
            IN  /\ mj_pc' = "returned"
                /\ mj_error' = ""
                /\ mj_result' = DictGet(originals, FirstWithCount(groups, max_count))
    /\ UNCHANGED answers
    /\ UNCHANGED << varsLoad, varsEval, varsSum >>

InitMaj ==
    /\ mj_pc = "call"
    /\ answers \in SeqsUpTo(AnswerValues, MaxAnswers)
    /\ mj_result = <<>>
    /\ mj_error = ""

NextMaj == FindMajorityAnswer

InitMajCall == InitLoad /\ IdleEval /\ InitMaj /\ IdleSum

SpecMaj == InitMajCall /\ [][NextMaj]_vars

(***************************************************************************)
(* find_answer_with_largest_sum.  A score is modelled by an integer: the   *)
(* sums are exact, float rounding is left out.                             *)
(***************************************************************************)
ScoreValues == { 0 - 1, 1, 2 }

\* zip(answers, scores) stops at the shorter list
ZipLen(a, s) == IF Len(a) <= Len(s) THEN Len(a) ELSE Len(s)

\* mutant of Accumulate: the score replaces the sum
AccumulateLast(sum, score) == score

\* text_classification.py:119   canonical_groups[canonical_form] += score
Accumulate(sum, score) == sum + score

\* text_classification.py:109,114-119: canonical_groups after n pairs;
\* defaultdict(float) starts a new key at 0.0
RECURSIVE score_groups(_, _, _)
score_groups(a, s, n) ==
    IF n = 0
    THEN <<>>
    ELSE LET d == score_groups(a, s, n - 1)
             canonical_form == Canonical(a[n])
         IN  DictSet(d, canonical_form,
                     Accumulate(IF DictHas(d, canonical_form)
                                THEN DictGet(d, canonical_form) ELSE 0, s[n]))

\* text_classification.py:124   max(canonical_groups, key=canonical_groups.get):
\* the first key, in the dict's order, of the largest value
MaxKey(d) ==
    d[CHOOSE i \in 1..Len(d) :
        /\ \A j \in 1..Len(d) : d[j].value <= d[i].value
        /\ \A j \in 1..(i - 1) : d[j].value < d[i].value].key

\* text_classification.py:105-125, one call
FindAnswerWithLargestSum ==
    /\ ws_pc = "call"
    /\ IF Len(answers) = 0 \/ Len(scores) = 0
       THEN /\ ws_pc' = "raised"
            /\ ws_error' = "ValueError"
            /\ UNCHANGED << ws_groups, ws_result >>
       ELSE LET n == ZipLen(answers, scores)
                groups == score_groups(answers, scores, n)
                originals == canonical_to_original(answers, n)
            IN  /\ ws_pc' = "returned"
                /\ ws_error' = ""
                /\ ws_groups' = groups
                /\ ws_result' = DictGet(originals, MaxKey(groups))
    /\ UNCHANGED << answers, scores, mj_pc, mj_result, mj_error >>
    /\ UNCHANGED << varsLoad, varsEval >>

InitSum ==
    /\ ws_pc = "call"
    /\ answers \in SeqsUpTo(AnswerValues, MaxScored)
    /\ scores \in SeqsUpTo(ScoreValues, MaxScored)
    /\ ws_groups = <<>>
    /\ ws_result = <<>>
    /\ ws_error = ""
    /\ mj_pc = "idle"
    /\ mj_result = <<>>
    /\ mj_error = ""

NextSum == FindAnswerWithLargestSum

InitSumCall == InitLoad /\ IdleEval /\ InitSum

SpecSum == InitSumCall /\ [][NextSum]_vars

(***************************************************************************)
(* Claims about load_predictions, checked under Spec                       *)
(***************************************************************************)
Has(u, key) == key \in golden[u].keys

Evidence(u) == Range(golden[u].criteria)

\* C1: the counter value used for a subject's k-th admitted post is k + 1,
\* whatever other subjects' admitted posts come in between.
C1_CounterIsOrdinalPlusOne ==
    (nread > 0 /\ Admitted(record)) =>
        user_posts_seen = posts_admitted[record.subject] + 1

\* C2: at the end of the stream a subject with decision true has as delay the
\* counter of the post at which its decision became true, and a subject with
\* decision false the counter of its last admitted post.
C2_DelayAtDecision ==
    pc = "done" =>
        \A u \in Subjects :
            posts_admitted[u] > 0 =>
                IF golden[u].decision
                THEN golden[u].delay = seen_at_flip[u]
                ELSE golden[u].delay = seen_at_last[u]

\* C3: once a subject has decision true and a recorded delay, no later step
\* changes its delay or its decision.
C3_DelayFrozenOnceDecided ==
    [][ \A u \in Subjects :
            (Has(u, "delay") /\ golden[u].decision) =>
                /\ golden'[u].delay = golden[u].delay
                /\ golden'[u].decision
                /\ "delay" \in golden'[u].keys ]_vars

\* a decided subject whose later post was admitted at a larger counter value
C3_Witness ==
    /\ nread > 0
    /\ Admitted(record)
    /\ golden[record.subject].decision
    /\ seen_at_last[record.subject] > seen_at_flip[record.subject]
    /\ golden[record.subject].delay < seen_at_last[record.subject]

\* C4: no tag outside the valid tag set is ever in a subject's criteria.
C4_OnlyValidTagsInCriteria ==
    \A u \in Subjects :
        Evidence(u) \subseteq (VALID_TAGS \cup EXTRACT_VALID_TAGS \cup {NO_SYMPTOMS})

\* C5: a subject's criteria are, without repeats, the tags of its admitted
\* posts minus the sentinel; a post tagged with the sentinel alone neither
\* adds a criterion nor makes the decision true.
C5_CriteriaAreUnion ==
    \A u \in Subjects :
        /\ Evidence(u) = tags_admitted[u] \ {NO_SYMPTOMS}
        /\ Len(golden[u].criteria) = Cardinality(Evidence(u))

C5_SentinelAlone ==
    (/\ nread' = nread + 1
     /\ Admitted(record')
     /\ Range(record'.classification) = {NO_SYMPTOMS}) =>
        LET u == record'.subject
        IN  /\ Len(golden'[u].criteria) = Len(golden[u].criteria)
            /\ golden'[u].decision = (Has(u, "decision") /\ golden[u].decision)

C5_EvidenceIsUnionWithoutSentinel ==
    [][ C5_CriteriaAreUnion' /\ C5_SentinelAlone ]_vars

\* a subject with criteria whose last admitted post carried the sentinel alone
C5_Witness ==
    /\ nread > 0
    /\ Admitted(record)
    /\ Range(record.classification) = {NO_SYMPTOMS}
    /\ Len(golden[record.subject].criteria) >= MIN_CRITERIA
    /\ golden[record.subject].decision
    /\ NO_SYMPTOMS \in tags_admitted[record.subject]

\* C6: a judged subject's decision is true exactly when it has at least five
\* distinct criteria, one of them DEPRESSED_MOOD or ANHEDONIA.
C6_DecisionIffPolicy ==
    \A u \in Subjects :
        Has(u, "decision") =>
            ( golden[u].decision <=>
                /\ Cardinality(Evidence(u)) >= 5
                /\ {"DEPRESSED_MOOD", "ANHEDONIA"} \cap Evidence(u) # {} )

\* five criteria with ANHEDONIA decide true, four with DEPRESSED_MOOD do not
C6_Witness ==
    \E u, v \in Subjects :
        /\ Cardinality(Evidence(u)) = 5
        /\ "ANHEDONIA" \in Evidence(u)
        /\ "DEPRESSED_MOOD" \notin Evidence(u)
        /\ golden[u].decision
        /\ Cardinality(Evidence(v)) = 4
        /\ "DEPRESSED_MOOD" \in Evidence(v)
        /\ Has(v, "decision")
        /\ ~ golden[v].decision

\* C7: a record whose text is not longer than 300 characters changes neither
\* the counter, nor the subjects seen, nor any subject's entry.
C7_RejectedRecordHasNoEffect ==
    [][ (nread' = nread + 1 /\ record'.text <= 300) =>
            UNCHANGED << user_posts_seen, processed_users, golden >> ]_vars

\* a record of exactly 300 characters of a subject that is already judged
C7_Witness ==
    /\ nread > 1
    /\ record.text = 300
    /\ Has(record.subject, "judged")
    /\ user_posts_seen > 1

(***************************************************************************)
(* Claims about erisk_eval, checked under SpecEval                         *)
(***************************************************************************)
EvalEnded == ev_pc \in {"returned", "raised"}

\* C8: erisk_eval on three empty sequences raises an error and reports no
\* global ERDE, NaN or other.
C8_EmptyInputRaises ==
    (EvalEnded /\ references = <<>> /\ predictions = <<>> /\ delays = <<>>) =>
        (ev_pc = "raised" /\ ~ report.printed)

\* the conditions of the four cases that hold of subject i
CasesOf(i) ==
    { c \in { <<FALSE, TRUE>>, <<TRUE, FALSE>>, <<TRUE, TRUE>>, <<FALSE, FALSE>> } :
        c = << references[i], predictions[i] >> }

GoldPositives == Cardinality({ i \in 1..Len(references) : references[i] })

\* C9: each subject falls under exactly one of the four cases; a false
\* positive contributes (gold positives)/N, a miss 1, a correct rejection 0,
\* whatever delay and o are; N > 0 subjects that are all gold false and
\* decision false score ERDE 0, precision 0 and recall 0.
C9_ContributionsByCase ==
    ev_pc = "returned" =>
        LET N == Len(references)
            Plain(n, d) == [ nan |-> FALSE, num |-> n, den |-> d,
                             logistic |-> <<>>, wnum |-> 1, wden |-> 1 ]
        IN  /\ Len(erde) = N
            /\ \A i \in 1..N :
                /\ Cardinality(CasesOf(i)) = 1
                /\ (~ references[i] /\ predictions[i]) =>
                       /\ erde[i].logistic = <<>>
                       /\ ~ erde[i].nan
                       /\ erde[i].num * N = GoldPositives * erde[i].den
                /\ (references[i] /\ ~ predictions[i]) => erde[i] = Plain(1, 1)
                /\ (~ references[i] /\ ~ predictions[i]) => erde[i] = Plain(0, 1)
            /\ (N > 0 /\ \A i \in 1..N : ~ references[i] /\ ~ predictions[i]) =>
                   /\ report.erde_global.logistic = <<>>
                   /\ ~ report.erde_global.nan
                   /\ report.erde_global.num = 0
                   /\ report.precision = Plain(0, 1)
                   /\ report.recall = Plain(0, 1)

\* three subjects: a false positive, a miss and a correct rejection
C9_Witness ==
    /\ ev_pc = "returned"
    /\ references = << FALSE, TRUE, FALSE >>
    /\ predictions = << TRUE, FALSE, FALSE >>
    /\ erde[1].num = 1
    /\ erde[1].den = 3

(***************************************************************************)
(* Claims about find_majority_answer, checked under SpecMaj                *)
(***************************************************************************)
\* the answers with the same words as answers[i]
GroupOf(i) == { j \in 1..Len(answers) : Range(answers[j]) = Range(answers[i]) }

IsLargestGroup(i) ==
    \A j \in 1..Len(answers) : Cardinality(GroupOf(j)) <= Cardinality(GroupOf(i))

\* C10: on a non-empty list find_majority_answer returns, as it was given,
\* the first answer that belongs to a largest group of answers with the same
\* words: the first member of the largest group, and among several largest
\* groups of the one whose first member comes first.
C10_MajorityIsFirstOfLargestGroup ==
    (mj_pc \in {"returned", "raised"} /\ Len(answers) > 0) =>
        /\ mj_pc = "returned"
        /\ \E i \in 1..Len(answers) :
            /\ IsLargestGroup(i)
            /\ \A k \in 1..(i - 1) : ~ IsLargestGroup(k)
            /\ mj_result = answers[i]

\* two groups of two answers each; the group seen first wins and its first
\* member is returned unsorted
C10_Witness ==
    /\ mj_pc = "returned"
    /\ Len(answers) = 4
    /\ mj_result = << "b", "a" >>
    /\ Cardinality(GroupOf(1)) = 2
    /\ \E j \in 1..4 : j \notin GroupOf(1) /\ Cardinality(GroupOf(j)) = 2
    /\ \E j \in GroupOf(1) : answers[j] = << "a", "b" >>

(***************************************************************************)
(* Claims about find_answer_with_largest_sum, checked under SpecSum        *)
(***************************************************************************)
RECURSIVE SumOver(_)
SumOver(J) ==
    IF J = {} THEN 0 ELSE LET j == CHOOSE x \in J : TRUE IN scores[j] + SumOver(J \ {j})

\* the sum of the scores of the answers with the same words as answers[i]
GroupSum(i) == SumOver(GroupOf(i))

HasLargestSum(i) == \A j \in 1..Len(answers) : GroupSum(j) <= GroupSum(i)

\* C11: with one score per answer, find_answer_with_largest_sum keeps one
\* sum per group of answers with the same words, each answer's score in the
\* sum of its own group and in no other, and returns, as it was given, the
\* first answer of the group of the largest sum (of the first such group
\* when several share it).
C11_LargestSumIsFirstOfGroup ==
    (ws_pc \in {"returned", "raised"} /\ Len(answers) > 0
        /\ Len(scores) = Len(answers)) =>
        /\ ws_pc = "returned"
        /\ \A i \in 1..Len(answers) :
            /\ Cardinality({ k \in 1..Len(ws_groups) :
                   Range(ws_groups[k].key) = Range(answers[i]) }) = 1
            /\ \A k \in 1..Len(ws_groups) :
                   Range(ws_groups[k].key) = Range(answers[i]) =>
                       ws_groups[k].value = GroupSum(i)
        /\ \A k \in 1..Len(ws_groups) :
               \E i \in 1..Len(answers) : Range(ws_groups[k].key) = Range(answers[i])
        /\ \E i \in 1..Len(answers) :
            /\ HasLargestSum(i)
            /\ \A k \in 1..(i - 1) : ~ HasLargestSum(k)
            /\ ws_result = answers[i]

\* the group {a, b} of two answers outweighs the single answer of the largest
\* score, and its first member is returned unsorted
C11_Witness ==
    /\ ws_pc = "returned"
    /\ answers = << <<"b">>, <<"b", "a">>, <<"a", "b">> >>
    /\ scores = << 2, 1, 2 >>
    /\ ws_result = << "b", "a" >>

====
